---- MODULE Spec2Model ----
(***************************************************************************)
(* Model of the face-recognition core of Genie (backend/core/face_engine.py *)
(* class FaceRecognitionEngine): identity store, enrollment, removal,       *)
(* similarity scoring, dynamic threshold and the recognition pipeline.      *)
(*                                                                          *)
(* Number representation (the code uses floats; the model is exact):        *)
(*   distances            hundredths            (0.41  -> 41)               *)
(*   thresholds           hundredths            (0.55  -> 55)               *)
(*   single similarities  units of 1/10^4       (0.75  -> 7500)             *)
(*   scores, confidences  units of 1/10^9       (1.0   -> 1000000000)       *)
(*   quality scores       units of 1/10^6       (0.8   -> 800000)           *)
(* An embedding is a point on a line, face_distance is |a - b|.             *)
(***************************************************************************)
EXTENDS Integers, Sequences, FiniteSets, TLC

\* ------------------------------------------------------------------ bounds
MaxOps == 2
MaxEnrollOps == 6
MaxLifecycleOps == 4
MaxSeedEnroll == 4
MaxFaults == 1
MaxTemporalOps == 11
MaxRequests == 3
MaxPersistOps == 4
MaxDoorbellOps == 3
MaxFunctionCalls == 1
MaxLegacyOps == 4
MaxDistance == 150

\* ------------------------------------------------------- program constants
max_faces_per_person == 4
min_threshold == 45
max_threshold == 75
history_window == 10
temporal_bonus == 5
default_confidence_threshold == 55

ScoreOne == 1000000000

Names == {"Alice", "Bob"}
Unknown == "Unknown"
NoEncoding == -1
Embeddings == {0, 41, 86, 150}

\* ---------------------------------------------------------------- helpers
Abs(x) == IF x < 0 THEN 0 - x ELSE x
Min2(a, b) == IF a <= b THEN a ELSE b
Max2(a, b) == IF a >= b THEN a ELSE b

RECURSIVE SeqSum(_)
SeqSum(s) == IF s = <<>> THEN 0 ELSE Head(s) + SeqSum(Tail(s))

SeqMin(s) == CHOOSE x \in {s[i] : i \in 1..Len(s)} : \A j \in 1..Len(s) : x <= s[j]
SeqMax(s) == CHOOSE x \in {s[i] : i \in 1..Len(s)} : \A j \in 1..Len(s) : x >= s[j]

\* face_recognition.face_distance(encodings, probe): one distance per encoding
RECURSIVE distances_from(_, _, _)
distances_from(encs, probe, i) ==
    IF i > Len(encs) THEN <<>>
    ELSE <<Abs(encs[i] - probe)>> \o distances_from(encs, probe, i + 1)
face_distance(encs, probe) == distances_from(encs, probe, 1)

\* ------------------------------------------------------ similarity scorer
\* variant: the last band without the floor at 0
distance_to_similarity_no_floor(d) ==
    IF d <= 25 THEN 10000 - d * 40
    ELSE IF d <= 35 THEN 9000 - (d - 25) * 150
    ELSE IF d <= 45 THEN 7500 - (d - 35) * 250
    ELSE IF d <= 60 THEN 5000 - (d - 45) * 200
    ELSE 2000 - (d - 60) * 50

\* single distance (hundredths) -> similarity (1/10^4)
distance_to_similarity(d) ==
    IF d <= 25 THEN 10000 - d * 40
    ELSE IF d <= 35 THEN 9000 - (d - 25) * 150
    ELSE IF d <= 45 THEN 7500 - (d - 35) * 250
    ELSE IF d <= 60 THEN 5000 - (d - 45) * 200
    ELSE Max2(0, 2000 - (d - 60) * 50)

\* variant: the weights listed in the opposite order
ensemble_weights_reversed == <<1, 2, 3, 4>>

ensemble_weights == <<4, 3, 2, 1>>

\* n * sum(d^2) - (sum d)^2  =  n^2 * variance(d)   (hundredths squared)
VarTimesN2(ds) ==
    Len(ds) * SeqSum([i \in 1..Len(ds) |-> ds[i] * ds[i]]) - SeqSum(ds) * SeqSum(ds)

\* 8, 10 or 11 tenths
bonus_of_variance(v, n) ==
    IF v > 225 * n * n THEN 8
    ELSE IF v < 25 * n * n THEN 11
    ELSE 10
consistency_bonus(ds) == bonus_of_variance(VarTimesN2(ds), Len(ds))

\* 7 or 10 tenths: consensus penalty for three or more references
consensus_factor(ds) ==
    IF Len(ds) >= 3 /\ 10 * Cardinality({i \in 1..Len(ds) : ds[i] <= 50}) < 6 * Len(ds)
    THEN 7 ELSE 10

\* final_score from its three parts (1/10^5, 1/10^4, hundredths), 1/10^9
combine_scores(weighted_average, best_match, min_distance, bonus, consensus) ==
    Min2(ScoreOne,
         (weighted_average * 5 + best_match * 30 + (100 - min_distance) * 2000)
         * bonus * consensus * 10)

\* score of a probe against a list of reference encodings, from their distances
ensemble_score(ds) ==
    combine_scores(
        SeqSum([i \in 1..Len(ds) |->
            distance_to_similarity(ds[i])
            * ensemble_weights[Min2(i - 1, Len(ensemble_weights) - 1) + 1]]),
        SeqMax([i \in 1..Len(ds) |-> distance_to_similarity(ds[i])]),
        SeqMin(ds),
        consistency_bonus(ds),
        consensus_factor(ds))

\* ------------------------------------------------------ quality validator
\* a detected face region: box size, grey-level statistics, edge position
Region(w, h, b, c, s, e) ==
    [width |-> w, height |-> h, brightness |-> b, contrast |-> c, sharpness |-> s, edge |-> e]

size_tag(r) ==
    IF r.width < 60 \/ r.height < 60 THEN "small_face"
    ELSE IF r.width < 100 \/ r.height < 100 THEN "medium_face" ELSE "none"
aspect_tag(r) ==
    IF 10 * r.width < 6 * r.height \/ 10 * r.width > 16 * r.height
    THEN "unusual_aspect_ratio" ELSE "none"
lighting_tag(r) ==
    IF r.brightness < 40 THEN "too_dark"
    ELSE IF r.brightness > 220 THEN "too_bright"
    ELSE IF r.brightness < 80 \/ r.brightness > 180 THEN "suboptimal_lighting" ELSE "none"
contrast_tag(r) ==
    IF r.contrast < 25 THEN "low_contrast"
    ELSE IF r.contrast < 40 THEN "medium_contrast" ELSE "none"
blur_tag(r) ==
    IF r.sharpness < 50 THEN "blurry"
    ELSE IF r.sharpness < 100 THEN "slight_blur" ELSE "none"
edge_tag(r) == IF r.edge THEN "edge_face" ELSE "none"

\* penalty factor of a tag, in tenths
penalty(tag) ==
    CASE tag = "none" -> 10
      [] tag = "small_face" -> 5
      [] tag = "medium_face" -> 8
      [] tag = "unusual_aspect_ratio" -> 6
      [] tag = "too_dark" -> 5
      [] tag = "too_bright" -> 7
      [] tag = "suboptimal_lighting" -> 9
      [] tag = "low_contrast" -> 6
      [] tag = "medium_contrast" -> 8
      [] tag = "blurry" -> 4
      [] tag = "slight_blur" -> 7
      [] tag = "edge_face" -> 8

\* variant: the lighting check with independent ifs instead of if/elif
validate_face_quality_independent_ifs(r) ==
    LET tags == <<size_tag(r), aspect_tag(r),
                  IF r.brightness < 40 THEN "too_dark" ELSE "none",
                  IF r.brightness > 220 THEN "too_bright" ELSE "none",
                  IF r.brightness < 80 \/ r.brightness > 180
                  THEN "suboptimal_lighting" ELSE "none",
                  contrast_tag(r), blur_tag(r), edge_tag(r)>>
        score == (penalty(tags[1]) * penalty(tags[2]) * penalty(tags[3])
                  * penalty(tags[4]) * penalty(tags[5]) * penalty(tags[6])
                  * penalty(tags[7]) * penalty(tags[8])) \div 100
        issues == SelectSeq(tags, LAMBDA t : t # "none")
    IN  [quality_score |-> score,
         issues |-> issues,
         is_good_quality |-> (score > 700000 /\ Len(issues) <= 2),
         brightness |-> r.brightness,
         contrast |-> r.contrast,
         sharpness |-> r.sharpness]

validate_face_quality(r) ==
    LET tags == <<size_tag(r), aspect_tag(r), lighting_tag(r),
                  contrast_tag(r), blur_tag(r), edge_tag(r)>>
        score == penalty(tags[1]) * penalty(tags[2]) * penalty(tags[3])
                 * penalty(tags[4]) * penalty(tags[5]) * penalty(tags[6])
        issues == SelectSeq(tags, LAMBDA t : t # "none")
    IN  [quality_score |-> score,
         issues |-> issues,
         is_good_quality |-> (score > 700000 /\ Len(issues) <= 2),
         brightness |-> r.brightness,
         contrast |-> r.contrast,
         sharpness |-> r.sharpness]

\* ------------------------------------------------------ dynamic threshold
threshold_adjustment(q) ==
    (IF q.quality_score > 800000 THEN 0 - 5
     ELSE IF q.quality_score < 500000 THEN 10 ELSE 0)
    + (IF q.brightness < 60 \/ q.brightness > 200 THEN 5 ELSE 0)
    + (IF q.contrast < 30 THEN 5 ELSE 0)
    + (IF q.sharpness < 80 THEN 8 ELSE IF q.sharpness > 200 THEN 0 - 3 ELSE 0)

\* variant: the adjusted value is returned without the clamp
get_dynamic_threshold_unclamped(base, q) == base + threshold_adjustment(q)

get_dynamic_threshold(base, q) ==
    Max2(min_threshold, Min2(max_threshold, base + threshold_adjustment(q)))

\* ------------------------------------------------------------------ state
VARIABLES
    known_face_encodings,   \* list of all encodings
    known_face_names,       \* name of each entry of known_face_encodings
    person_encodings,       \* dict name -> list of encodings, in insertion order
    known_faces_metadata,   \* dict name -> metadata
    confidence_threshold,   \* base threshold, hundredths
    recognition_history,    \* recent outcome names
    photos,                 \* files under known_faces/photos
    face_data_pkl,          \* contents of known_faces/face_data.pkl
    result,                 \* what the last call returned
    accepted,               \* per name: encodings of the enrollments that returned success
    removed,                \* names removed and not successfully enrolled since
    ops,                    \* number of calls made
    faults,                 \* number of injected environment failures
    handlers,               \* route handlers in flight: request -> position
    device_states           \* DeviceSimulator._device_states: device id -> state

store == <<known_face_encodings, known_face_names, person_encodings, known_faces_metadata>>
vars == <<known_face_encodings, known_face_names, person_encodings, known_faces_metadata,
          confidence_threshold, recognition_history, photos, face_data_pkl, result,
          accepted, removed, ops, faults, handlers, device_states>>

\* ------------------------------------------------- dict person_encodings
Keys(pe) == {pe[i].name : i \in 1..Len(pe)}
KeyIndex(pe, name) == CHOOSE i \in 1..Len(pe) : pe[i].name = name
Get(pe, name) == pe[KeyIndex(pe, name)].encs
Put(pe, name, encs) ==
    IF name \in Keys(pe)
    THEN [pe EXCEPT ![KeyIndex(pe, name)] = [name |-> name, encs |-> encs]]
    ELSE Append(pe, [name |-> name, encs |-> encs])
Del(pe, name) == SelectSeq(pe, LAMBDA e : e.name # name)

\* list.index(name): position of the first occurrence
ListIndex(names, name) ==
    CHOOSE i \in 1..Len(names) : names[i] = name /\ \A j \in 1..(i - 1) : names[j] # name

\* dict known_faces_metadata
MetaPut(m, name, rec) == [n \in (DOMAIN m) \cup {name} |-> IF n = name THEN rec ELSE m[n]]
MetaDel(m, name) == [n \in (DOMAIN m) \ {name} |-> m[n]]
EmptyDict == [n \in {} |-> 0]

\* ----------------------------------------------------------------- inputs
RegionGood == Region(120, 120, 128, 50, 150, FALSE)
RegionMedium == Region(80, 80, 128, 50, 150, FALSE)
RegionFair == Region(80, 80, 128, 35, 150, FALSE)
RegionPoor == Region(120, 120, 30, 35, 150, FALSE)
RegionBad == Region(50, 50, 128, 50, 40, FALSE)
Regions == {RegionGood, RegionMedium, RegionFair, RegionPoor, RegionBad}

Faces == [region : Regions, enc : Embeddings]
InvalidImage == [valid |-> FALSE, faces |-> <<>>]
SingleFaceImages == {[valid |-> TRUE, faces |-> <<f>>] : f \in Faces}
\* group photos: a big sharp face, a smaller one and an unusable one
PairFaces == {[region |-> RegionGood, enc |-> 86],
              [region |-> RegionMedium, enc |-> 0],
              [region |-> RegionBad, enc |-> 0]}
PairImages == {[valid |-> TRUE, faces |-> <<f, g>>] : f \in PairFaces, g \in PairFaces}
Images ==
    {InvalidImage, [valid |-> TRUE, faces |-> <<>>]} \cup SingleFaceImages \cup PairImages

NoMetadata == [given |-> FALSE, access_level |-> "", notes |-> ""]
\* the form defaults of the add route
RouteMetadata == [given |-> TRUE, access_level |-> "standard", notes |-> ""]
Metadatas == {NoMetadata, [given |-> TRUE, access_level |-> "admin", notes |-> "vip"]}

Thresholds == {5, 10, 55, 100, 105}

\* --------------------------------------------------------------- results
Result(op, name, success, error) ==
    [op |-> op, name |-> name, success |-> success, error |-> error,
     encoding_count |-> 0, faces_detected |-> 0, recognized_persons |-> <<>>]

EmptyPkl == [exists |-> FALSE, corrupt |-> FALSE,
             encodings |-> <<>>, names |-> <<>>, person_encodings |-> <<>>,
             metadata |-> EmptyDict]

NoHandlers == <<>>

\* the front door of DEFAULT_DEVICE_STATES
DEFAULT_DEVICE_STATES == [door_front |-> [locked |-> TRUE]]

Init ==
    /\ known_face_encodings = <<>>
    /\ known_face_names = <<>>
    /\ person_encodings = <<>>
    /\ known_faces_metadata = EmptyDict
    /\ confidence_threshold = default_confidence_threshold
    /\ recognition_history = <<>>
    /\ photos = {}
    /\ face_data_pkl = EmptyPkl
    /\ result = Result("init", "", TRUE, "")
    /\ accepted = [n \in Names |-> <<>>]
    /\ removed = {}
    /\ ops = 0
    /\ faults = 0
    /\ handlers = NoHandlers
    /\ device_states = DEFAULT_DEVICE_STATES

\* score from the distances to the references of one identity, 1/10^9
score_of_distances(distances) ==
    IF Len(distances) = 0 THEN 0
    ELSE IF Len(distances) = 1
         THEN distance_to_similarity(SeqMin(distances)) * 100000
         ELSE ensemble_score(distances)

\* score of a probe against one identity of the store, 1/10^9
calculate_similarity_score(pe, face_encoding, person_name) ==
    IF person_name \notin Keys(pe) THEN 0
    ELSE score_of_distances(face_distance(Get(pe, person_name), face_encoding))

\* ------------------------------------------------------------ persistence
SaveOutcomes == IF faults < MaxFaults THEN {"ok", "open_failed", "dump_failed"} ELSE {"ok"}
SaveCost(outcome) == IF outcome = "ok" THEN 0 ELSE 1

\* face_data.pkl after _save_face_data; a failure is logged and swallowed
save_face_data(pkl, kfe, kfn, pe, meta, outcome) ==
    IF outcome = "ok"
    THEN [exists |-> TRUE, corrupt |-> FALSE, encodings |-> kfe, names |-> kfn,
          person_encodings |-> pe, metadata |-> meta]
    ELSE IF outcome = "open_failed" THEN pkl
    ELSE [EmptyPkl EXCEPT !.exists = TRUE, !.corrupt = TRUE]

\* ------------------------------------------------------------- enrollment
\* index of the first face with the largest bounding-box area (np.argmax)
largest_face(faces) ==
    LET area(i) == faces[i].region.width * faces[i].region.height
    IN  faces[CHOOSE i \in 1..Len(faces) :
                /\ \A j \in 1..Len(faces) : area(j) <= area(i)
                /\ \A j \in 1..(i - 1) : area(j) < area(i)]

min_face_size == 50
\* what _extract_face_encoding may return for a detected face
extract_face_encoding(face) ==
    IF face.region.width < min_face_size \/ face.region.height < min_face_size
    THEN {NoEncoding}
    ELSE {face.enc, NoEncoding}

\* average distance to the existing encodings exceeds 0.7
is_outlier(encs, face_encoding) ==
    SeqSum(face_distance(encs, face_encoding)) > 70 * Len(encs)

\* variant: capacity test off by one (> instead of >=)
enroll_off_by_one(kfe, kfn, pe, name, face_encoding) ==
    IF name \in Keys(pe) /\ Len(Get(pe, name)) > max_faces_per_person
    THEN [kfe |-> [kfe EXCEPT ![ListIndex(kfn, name)] = face_encoding],
          kfn |-> kfn,
          pe |-> Put(pe, name, [Get(pe, name) EXCEPT ![1] = face_encoding])]
    ELSE [kfe |-> Append(kfe, face_encoding),
          kfn |-> Append(kfn, name),
          pe |-> Put(pe, name, IF name \in Keys(pe)
                               THEN Append(Get(pe, name), face_encoding)
                               ELSE <<face_encoding>>)]

\* the three in-memory collections after an accepted encoding is stored
enroll(kfe, kfn, pe, name, face_encoding) ==
    IF name \in Keys(pe)
    THEN IF Len(Get(pe, name)) >= max_faces_per_person
         THEN [kfe |-> [kfe EXCEPT ![ListIndex(kfn, name)] = face_encoding],
               kfn |-> kfn,
               pe |-> Put(pe, name, [Get(pe, name) EXCEPT ![1] = face_encoding])]
         ELSE [kfe |-> Append(kfe, face_encoding),
               kfn |-> Append(kfn, name),
               pe |-> Put(pe, name, Append(Get(pe, name), face_encoding))]
    ELSE [kfe |-> Append(kfe, face_encoding),
          kfn |-> Append(kfn, name),
          pe |-> Put(pe, name, <<face_encoding>>)]

photo_path(name, pe) == <<name, Len(Get(pe, name))>>

\* known_faces_metadata after the photo has been saved
update_metadata(meta, name, pe, metadata, quality_check) ==
    IF name \in DOMAIN meta
    THEN [meta EXCEPT ![name] =
            [@ EXCEPT !.photo_paths = Append(@, photo_path(name, pe)),
                      !.encoding_count = Len(Get(pe, name)),
                      !.last_updated = TRUE]]
    ELSE MetaPut(meta, name,
            [photo_paths |-> <<photo_path(name, pe)>>,
             access_level |-> IF metadata.given THEN metadata.access_level ELSE "standard",
             notes |-> IF metadata.given THEN metadata.notes ELSE "",
             encoding_count |-> Len(Get(pe, name)),
             quality_score |-> quality_check.quality_score,
             last_updated |-> FALSE])

\* variant: looking the name up in the defaultdict before the membership
\* test leaves an empty entry behind
AddRejected_defaultdict(name, error) ==
    /\ result' = Result("add", name, FALSE, error)
    /\ person_encodings' = IF name \in Keys(person_encodings) THEN person_encodings
                           ELSE Append(person_encodings, [name |-> name, encs |-> <<>>])
    /\ UNCHANGED <<known_face_encodings, known_face_names,
                   known_faces_metadata, photos, face_data_pkl, accepted, removed, faults>>

AddRejected(name, error) ==
    /\ result' = Result("add", name, FALSE, error)
    /\ UNCHANGED <<known_face_encodings, known_face_names, person_encodings,
                   known_faces_metadata, photos, face_data_pkl, accepted, removed, faults>>

\* the in-memory lists are already changed when image.save raises
AddPhotoSaveFailed(name, after) ==
    /\ known_face_encodings' = after.kfe
    /\ known_face_names' = after.kfn
    /\ person_encodings' = after.pe
    /\ result' = Result("add", name, FALSE, "Failed to process image")
    /\ faults' = faults + 1
    /\ UNCHANGED <<known_faces_metadata, photos, face_data_pkl, accepted, removed>>

AddAccepted(name, after, face_encoding, metadata, quality_check, outcome) ==
    /\ known_face_encodings' = after.kfe
    /\ known_face_names' = after.kfn
    /\ person_encodings' = after.pe
    /\ photos' = photos \cup {photo_path(name, after.pe)}
    /\ known_faces_metadata' =
           update_metadata(known_faces_metadata, name, after.pe, metadata, quality_check)
    /\ face_data_pkl' = save_face_data(face_data_pkl, after.kfe, after.kfn, after.pe,
                                       known_faces_metadata', outcome)
    /\ result' = [Result("add", name, TRUE, "") EXCEPT
                     !.encoding_count = Len(Get(after.pe, name)),
                     !.faces_detected = 1]
    /\ accepted' = [accepted EXCEPT ![name] = Append(@, face_encoding)]
    /\ removed' = removed \ {name}
    /\ faults' = faults + SaveCost(outcome)

add_known_person(name, image, metadata) ==
    /\ ops' = ops + 1
    /\ UNCHANGED <<confidence_threshold, recognition_history>>
    /\ IF ~image.valid THEN AddRejected(name, "Failed to process image")
       ELSE IF Len(image.faces) = 0 THEN AddRejected(name, "No face detected")
       ELSE LET face == largest_face(image.faces)
                quality_check == validate_face_quality(face.region)
            IN  IF quality_check.quality_score < 600000
                THEN AddRejected(name, "Face quality too low for training")
                ELSE \E face_encoding \in extract_face_encoding(face) :
                       IF face_encoding = NoEncoding
                       THEN AddRejected(name, "Could not extract face features")
                       ELSE IF name \in Keys(person_encodings)
                               /\ is_outlier(Get(person_encodings, name), face_encoding)
                       THEN AddRejected(name, "New photo looks very different")
                       ELSE LET after == enroll(known_face_encodings, known_face_names,
                                                person_encodings, name, face_encoding)
                            IN  \/ /\ faults < MaxFaults
                                   /\ AddPhotoSaveFailed(name, after)
                                \/ \E outcome \in SaveOutcomes :
                                       AddAccepted(name, after, face_encoding, metadata,
                                                   quality_check, outcome)

\* ---------------------------------------------------------------- removal
\* variant: only the first entry of name is deleted (list.remove)
purge_first_only(kfe, kfn, name) ==
    LET first == ListIndex(kfn, name)
        drop(l) == SubSeq(l, 1, first - 1) \o SubSeq(l, first + 1, Len(l))
    IN  [kfe |-> drop(kfe), kfn |-> drop(kfn)]

\* known_face_encodings / known_face_names without the entries of name
purge(kfe, kfn, name) ==
    LET keep == {i \in 1..Len(kfn) : kfn[i] # name}
        RECURSIVE pick(_, _)
        pick(l, i) == IF i > Len(kfn) THEN <<>>
                      ELSE IF i \in keep THEN <<l[i]>> \o pick(l, i + 1)
                      ELSE pick(l, i + 1)
    IN  [kfe |-> pick(kfe, 1), kfn |-> pick(kfn, 1)]

PathSet(paths) == {paths[i] : i \in 1..Len(paths)}

remove_known_person(name) ==
    /\ ops' = ops + 1
    /\ UNCHANGED <<confidence_threshold, recognition_history>>
    /\ IF name \notin Keys(person_encodings)
       THEN /\ result' = Result("remove", name, FALSE, "not found")
            /\ UNCHANGED <<known_face_encodings, known_face_names, person_encodings,
                           known_faces_metadata, photos, face_data_pkl, accepted,
                           removed, faults>>
       ELSE LET after == purge(known_face_encodings, known_face_names, name)
                paths == IF name \in DOMAIN known_faces_metadata
                         THEN PathSet(known_faces_metadata[name].photo_paths) ELSE {}
            IN  \* unlink of a photo may fail; the failure is logged and ignored
                \E stuck \in (IF faults < MaxFaults THEN SUBSET (paths \cap photos) ELSE {{}}) :
                \E outcome \in (IF stuck = {} THEN SaveOutcomes ELSE {"ok"}) :
                    /\ known_face_encodings' = after.kfe
                    /\ known_face_names' = after.kfn
                    /\ person_encodings' = Del(person_encodings, name)
                    /\ photos' = (photos \ paths) \cup stuck
                    /\ known_faces_metadata' = MetaDel(known_faces_metadata, name)
                    /\ face_data_pkl' = save_face_data(face_data_pkl, after.kfe, after.kfn,
                                            person_encodings', known_faces_metadata', outcome)
                    /\ result' = Result("remove", name, TRUE, "")
                    /\ accepted' = [accepted EXCEPT ![name] = <<>>]
                    /\ removed' = removed \cup {name}
                    /\ faults' = faults + SaveCost(outcome) + (IF stuck = {} THEN 0 ELSE 1)

\* ------------------------------------------------------ read-only queries
\* the names list_known_persons reports
list_known_persons(pe) == [i \in 1..Len(pe) |-> pe[i].name]

\* TRUE when get_person_photo returns bytes, FALSE when it returns None
get_person_photo(meta, files, name) ==
    /\ name \in DOMAIN meta
    /\ meta[name].photo_paths # <<>>
    /\ meta[name].photo_paths[Len(meta[name].photo_paths)] \in files

\* -------------------------------------------------------- threshold setter
\* what a successful update_confidence_threshold returns
ThresholdUpdated(old_threshold, new_threshold) ==
    [op |-> "threshold", name |-> "", success |-> TRUE, error |-> "",
     encoding_count |-> 0, faces_detected |-> 0, recognized_persons |-> <<>>,
     old_threshold |-> old_threshold, new_threshold |-> new_threshold]

\* variant: only the upper end of the range is tested
update_confidence_threshold_no_floor(threshold) ==
    /\ ops' = ops + 1
    /\ IF ~(threshold <= 100)
       THEN /\ result' = Result("threshold", "", FALSE, "Threshold must be between 0.1 and 1.0")
            /\ UNCHANGED confidence_threshold
       ELSE /\ confidence_threshold' = threshold
            /\ result' = ThresholdUpdated(confidence_threshold, threshold)
    /\ UNCHANGED <<known_face_encodings, known_face_names, person_encodings,
                   known_faces_metadata, recognition_history, photos, face_data_pkl,
                   accepted, removed, faults>>

update_confidence_threshold(threshold) ==
    /\ ops' = ops + 1
    /\ IF ~(10 <= threshold /\ threshold <= 100)
       THEN /\ result' = Result("threshold", "", FALSE, "Threshold must be between 0.1 and 1.0")
            /\ UNCHANGED confidence_threshold
       ELSE /\ confidence_threshold' = threshold
            /\ result' = ThresholdUpdated(confidence_threshold, threshold)
    /\ UNCHANGED <<known_face_encodings, known_face_names, person_encodings,
                   known_faces_metadata, recognition_history, photos, face_data_pkl,
                   accepted, removed, faults>>

\* ----------------------------------------------------- temporal tracker
LastN(h, n) == IF Len(h) <= n THEN h ELSE SubSeq(h, Len(h) - n + 1, Len(h))

\* variant: counts the name over the whole history instead of the last five
apply_temporal_consistency_whole_history(history, person_name, confidence) ==
    IF history = <<>> \/ person_name = Unknown THEN confidence
    ELSE LET recent_count ==
                 Cardinality({i \in 1..Len(history) : history[i] = person_name})
         IN  IF recent_count >= 2
             THEN Min2(ScoreOne, confidence + Min2(temporal_bonus * recent_count, 15) * 10000000)
             ELSE confidence

apply_temporal_consistency(history, person_name, confidence) ==
    IF history = <<>> \/ person_name = Unknown THEN confidence
    ELSE LET recent == LastN(history, 5)
             recent_count == Cardinality({i \in 1..Len(recent) : recent[i] = person_name})
         IN  IF recent_count >= 2
             THEN Min2(ScoreOne, confidence + Min2(temporal_bonus * recent_count, 15) * 10000000)
             ELSE confidence

\* variant: once full, the history keeps its first entries and drops the new one
update_recognition_history_keep_first(history, person_name) ==
    LET h == Append(history, person_name)
    IN  IF Len(h) > history_window THEN SubSeq(h, 1, history_window) ELSE h

update_recognition_history(history, person_name) ==
    LET h == Append(history, person_name)
    IN  IF Len(h) > history_window THEN LastN(h, history_window) ELSE h

\* ---------------------------------------------------- recognition pipeline
ThresholdScore(t) == t * 10000000

\* best_scores: the similarity of every identity, in the order of the dict's keys
RECURSIVE scores_from(_, _, _)
scores_from(pe, face_encoding, i) ==
    IF i > Len(pe) THEN <<>>
    ELSE <<calculate_similarity_score(pe, face_encoding, pe[i].name)>>
         \o scores_from(pe, face_encoding, i + 1)
all_scores(pe, face_encoding) == scores_from(pe, face_encoding, 1)

\* the loop over person_encodings.keys(): running maximum and the name it carries
RECURSIVE find_best(_, _, _, _, _)
find_best(pe, sims, i, best, dynamic_threshold) ==
    IF i > Len(pe) THEN best
    ELSE IF sims[i] > best.similarity
         THEN find_best(pe, sims, i + 1,
                  [similarity |-> sims[i],
                   name |-> IF sims[i] >= ThresholdScore(dynamic_threshold)
                            THEN pe[i].name ELSE best.name],
                  dynamic_threshold)
         ELSE find_best(pe, sims, i + 1, best, dynamic_threshold)

\* best_scores.sort(reverse=True): first and second entry
first_score(sims) == SeqMax(sims)
second_score(sims) ==
    LET top == SeqMax(sims)
        rest == SelectSeq(sims, LAMBDA x : x # top)
    IN  IF Cardinality({i \in 1..Len(sims) : sims[i] = top}) >= 2 \/ rest = <<>>
        THEN top ELSE SeqMax(rest)

required_margin(quality_score) == IF quality_score > 700000 THEN 120000000 ELSE 180000000

\* variant: the comparison with 0.85 the wrong way round
is_ambiguous_flipped(sims, quality_score) ==
    /\ first_score(sims) - second_score(sims) < required_margin(quality_score)
    /\ first_score(sims) > 850000000

is_ambiguous(sims, quality_score) ==
    /\ first_score(sims) - second_score(sims) < required_margin(quality_score)
    /\ first_score(sims) < 850000000

\* variant: the 1.02 bonus without the cap at 1.0
quality_adjusted_unclamped(similarity, quality_score) ==
    IF quality_score > 800000 THEN (similarity \div 50) * 51
    ELSE IF quality_score < 500000 THEN (similarity \div 10) * 9
    ELSE similarity

\* layer 3: quality-based confidence adjustment
quality_adjusted(similarity, quality_score) ==
    IF quality_score > 800000 THEN Min2(ScoreOne, (similarity \div 50) * 51)
    ELSE IF quality_score < 500000 THEN (similarity \div 10) * 9
    ELSE similarity

\* variant: layer 3 without the final validation check
validate_layers_no_retest(sims, best, quality_score, dynamic_threshold) ==
    IF best.similarity < ThresholdScore(dynamic_threshold) THEN best
    ELSE IF Len(sims) >= 2 /\ is_ambiguous(sims, quality_score)
    THEN [name |-> Unknown, similarity |-> 0]
    ELSE IF best.name # Unknown
    THEN [name |-> best.name,
          similarity |-> quality_adjusted(best.similarity, quality_score)]
    ELSE best

\* layers 1-3, given the scores and the result of the loop over the identities
validate_layers(sims, best, quality_score, dynamic_threshold) ==
    IF best.similarity < ThresholdScore(dynamic_threshold) THEN best
    ELSE IF Len(sims) >= 2 /\ is_ambiguous(sims, quality_score)
    THEN [name |-> Unknown, similarity |-> 0]
    ELSE IF best.name # Unknown
    THEN IF quality_adjusted(best.similarity, quality_score) < ThresholdScore(dynamic_threshold)
         THEN [name |-> Unknown, similarity |-> 0]
         ELSE [name |-> best.name,
               similarity |-> quality_adjusted(best.similarity, quality_score)]
    ELSE best

scan_and_validate(pe, sims, quality_score, dynamic_threshold) ==
    validate_layers(sims,
                    find_best(pe, sims, 1, [name |-> Unknown, similarity |-> 0],
                              dynamic_threshold),
                    quality_score, dynamic_threshold)

\* for one face: the name and similarity before the temporal bonus
validate_match(pe, face_encoding, quality_score, dynamic_threshold) ==
    IF pe = <<>> THEN [name |-> Unknown, similarity |-> 0]
    ELSE scan_and_validate(pe, all_scores(pe, face_encoding), quality_score,
                           dynamic_threshold)

\* variant: an unmatched face takes the name that fills the recent history
outcome_history_fallback(m, meta, history, quality_check, dynamic_threshold, face) ==
    LET recent == LastN(history, 5)
        name == IF m.name = Unknown /\ Len(recent) >= 2
                   /\ \A i \in 1..Len(recent) : recent[i] = recent[1]
                THEN recent[1] ELSE m.name
    IN  [name |-> name,
         confidence |-> IF name # Unknown
                        THEN apply_temporal_consistency(history, name, m.similarity)
                        ELSE m.similarity,
         access_level |-> IF name = Unknown THEN "none"
                          ELSE IF name \in DOMAIN meta THEN meta[name].access_level
                          ELSE "standard",
         face_quality |-> quality_check.quality_score,
         dynamic_threshold |-> dynamic_threshold,
         probe |-> face.enc]

\* one entry of recognized_persons
outcome(m, meta, history, quality_check, dynamic_threshold, face) ==
    [name |-> m.name,
     confidence |-> IF m.name # Unknown
                    THEN apply_temporal_consistency(history, m.name, m.similarity)
                    ELSE m.similarity,
     access_level |-> IF m.name = Unknown THEN "none"
                      ELSE IF m.name \in DOMAIN meta THEN meta[m.name].access_level
                      ELSE "standard",
     face_quality |-> quality_check.quality_score,
     dynamic_threshold |-> dynamic_threshold,
     probe |-> face.enc]

recognize_with(pe, meta, history, quality_check, dynamic_threshold, face) ==
    outcome(validate_match(pe, face.enc, quality_check.quality_score, dynamic_threshold),
            meta, history, quality_check, dynamic_threshold, face)

recognize_checked(pe, meta, base_threshold, history, quality_check, face) ==
    recognize_with(pe, meta, history, quality_check,
                   get_dynamic_threshold(base_threshold, quality_check), face)

recognize_one(pe, meta, base_threshold, history, face) ==
    recognize_checked(pe, meta, base_threshold, history,
                      validate_face_quality(face.region), face)

\* variant: only named outcomes enter the history
record_outcome_named_only(acc, person) ==
    [persons |-> Append(acc.persons, person),
     history |-> IF person.name = Unknown THEN acc.history
                 ELSE update_recognition_history(acc.history, person.name)]

\* recognized_persons.append(...) and _update_recognition_history(name)
record_outcome(acc, person) ==
    [persons |-> Append(acc.persons, person),
     history |-> update_recognition_history(acc.history, person.name)]

\* the loop over the detected faces
RECURSIVE recognize_loop(_, _, _, _, _)
recognize_loop(pe, meta, base_threshold, faces, acc) ==
    IF faces = <<>> THEN acc
    ELSE IF validate_face_quality(Head(faces).region).quality_score < 300000
         THEN recognize_loop(pe, meta, base_threshold, Tail(faces), acc)
         ELSE recognize_loop(pe, meta, base_threshold, Tail(faces),
                  record_outcome(acc, recognize_one(pe, meta, base_threshold, acc.history,
                                                    Head(faces))))

\* variant: the references of the outcome's name are read by indexing the
\* defaultdict, which inserts a key for "Unknown"
recognize_face_indexing_defaultdict(image) ==
    /\ ops' = ops + 1
    /\ UNCHANGED <<known_face_encodings, known_face_names,
                   known_faces_metadata, confidence_threshold, photos, face_data_pkl,
                   accepted, removed, faults>>
    /\ IF ~image.valid
       THEN /\ result' = Result("recognize", "", FALSE, "Recognition failed")
            /\ UNCHANGED <<recognition_history, person_encodings>>
       ELSE IF Len(image.faces) = 0
       THEN /\ result' = Result("recognize", "", TRUE, "")
            /\ UNCHANGED <<recognition_history, person_encodings>>
       ELSE \E out \in {recognize_loop(person_encodings, known_faces_metadata,
                                      confidence_threshold, image.faces,
                                      [persons |-> <<>>, history |-> recognition_history])} :
                /\ result' = [Result("recognize", "", TRUE, "") EXCEPT
                                 !.faces_detected = Len(image.faces),
                                 !.recognized_persons = out.persons]
                /\ recognition_history' = out.history
                /\ person_encodings' =
                       IF \E i \in 1..Len(out.persons) : out.persons[i].name = Unknown
                       THEN Put(person_encodings, Unknown, <<>>)
                       ELSE person_encodings

recognize_face(image) ==
    /\ ops' = ops + 1
    /\ UNCHANGED <<known_face_encodings, known_face_names, person_encodings,
                   known_faces_metadata, confidence_threshold, photos, face_data_pkl,
                   accepted, removed, faults>>
    /\ IF ~image.valid
       THEN /\ result' = Result("recognize", "", FALSE, "Recognition failed")
            /\ UNCHANGED recognition_history
       ELSE IF Len(image.faces) = 0
       THEN /\ result' = Result("recognize", "", TRUE, "")
            /\ UNCHANGED recognition_history
       ELSE \E out \in {recognize_loop(person_encodings, known_faces_metadata,
                                      confidence_threshold, image.faces,
                                      [persons |-> <<>>, history |-> recognition_history])} :
                /\ result' = [Result("recognize", "", TRUE, "") EXCEPT
                                 !.faces_detected = Len(image.faces),
                                 !.recognized_persons = out.persons]
                /\ recognition_history' = out.history

\* ------------------------------------------------------------------- spec
AddKnownPerson ==
    /\ ops < MaxOps
    /\ UNCHANGED <<handlers, device_states>>
    /\ \E name \in Names, image \in Images, metadata \in Metadatas :
           add_known_person(name, image, metadata)
RemoveKnownPerson ==
    /\ ops < MaxOps
    /\ UNCHANGED <<handlers, device_states>>
    /\ \E name \in Names : remove_known_person(name)
UpdateConfidenceThreshold ==
    /\ ops < MaxOps
    /\ UNCHANGED <<handlers, device_states>>
    /\ \E threshold \in Thresholds : update_confidence_threshold(threshold)
RecognizeFace ==
    /\ ops < MaxOps
    /\ UNCHANGED <<handlers, device_states>>
    /\ \E image \in Images : recognize_face(image)

Next ==
    \/ AddKnownPerson
    \/ RemoveKnownPerson
    \/ UpdateConfidenceThreshold
    \/ RecognizeFace

Spec == Init /\ [][Next]_vars

\* ----------------------------------------- long enrollment histories
\* the same engine driven with good single-face photos only
EnrollEmbeddings == {0, 41}
GoodImage(e) == [valid |-> TRUE, faces |-> <<[region |-> RegionGood, enc |-> e]>>]

EnrollAdd ==
    /\ ops < MaxEnrollOps
    /\ UNCHANGED <<handlers, device_states>>
    /\ \E name \in Names, e \in EnrollEmbeddings :
           add_known_person(name, GoodImage(e), NoMetadata)
EnrollRemove ==
    /\ ops < MaxEnrollOps
    /\ UNCHANGED <<handlers, device_states>>
    /\ \E name \in Names : remove_known_person(name)

NextEnroll ==
    \/ EnrollAdd
    \/ EnrollRemove

SpecEnroll == Init /\ [][NextEnroll]_vars

\* ------------------------------------- enroll, recognize, remove, again
LifecycleAdd ==
    /\ ops < MaxLifecycleOps
    /\ UNCHANGED <<handlers, device_states>>
    /\ \E name \in Names, e \in EnrollEmbeddings :
           add_known_person(name, GoodImage(e), NoMetadata)
LifecycleRemove ==
    /\ ops < MaxLifecycleOps
    /\ UNCHANGED <<handlers, device_states>>
    /\ \E name \in Names : remove_known_person(name)
LifecycleRecognize ==
    /\ ops < MaxLifecycleOps
    /\ UNCHANGED <<handlers, device_states>>
    /\ \E e \in EnrollEmbeddings : recognize_face(GoodImage(e))

NextLifecycle ==
    \/ LifecycleAdd
    \/ LifecycleRemove
    \/ LifecycleRecognize

SpecLifecycle == Init /\ [][NextLifecycle]_vars

\* ------------------------------ one recognition on a populated engine
\* The engine is constructed over a known_faces directory written by an
\* earlier run: the store is what a sequence of enrollments leaves behind.
SeedEmbeddings == {0, 86, 150}
SeedCalls == UNION {[1..n -> Names \X SeedEmbeddings] : n \in 0..MaxSeedEnroll}

EmptyStore == [kfe |-> <<>>, kfn |-> <<>>, pe |-> <<>>, meta |-> EmptyDict, photos |-> {}]

\* add_known_person with a good photo, no metadata and no failure
seed_add(st, name, e) ==
    IF name \in Keys(st.pe) /\ is_outlier(Get(st.pe, name), e) THEN st
    ELSE LET after == enroll(st.kfe, st.kfn, st.pe, name, e)
         IN  [kfe |-> after.kfe, kfn |-> after.kfn, pe |-> after.pe,
              meta |-> update_metadata(st.meta, name, after.pe, NoMetadata,
                                       validate_face_quality(RegionGood)),
              photos |-> st.photos \cup {photo_path(name, after.pe)}]

RECURSIVE seed_store(_, _)
seed_store(calls, i) ==
    IF i = 0 THEN EmptyStore
    ELSE seed_add(seed_store(calls, i - 1), calls[i][1], calls[i][2])

SeedStores == {seed_store(c, Len(c)) : c \in SeedCalls}
SeedThresholds == {10, default_confidence_threshold, 100}
SeedHistories == {<<>>, <<"Alice", "Alice">>, <<"Bob", "Bob", "Bob">>,
                  <<"Unknown", "Alice", "Bob">>}

InitRecognize ==
    /\ \E st \in SeedStores :
          /\ known_face_encodings = st.kfe
          /\ known_face_names = st.kfn
          /\ person_encodings = st.pe
          /\ known_faces_metadata = st.meta
          /\ photos = st.photos
          /\ face_data_pkl = save_face_data(EmptyPkl, st.kfe, st.kfn, st.pe, st.meta, "ok")
          /\ accepted = [n \in Names |-> IF n \in Keys(st.pe) THEN Get(st.pe, n) ELSE <<>>]
    /\ confidence_threshold \in SeedThresholds
    /\ recognition_history \in SeedHistories
    /\ result = Result("init", "", TRUE, "")
    /\ removed = {}
    /\ ops = 0
    /\ faults = 0
    /\ handlers = NoHandlers
    /\ device_states = DEFAULT_DEVICE_STATES

ProbeOnce ==
    /\ ops = 0
    /\ UNCHANGED <<handlers, device_states>>
    /\ \E image \in Images : recognize_face(image)

NextRecognize == ProbeOnce

SpecRecognize == InitRecognize /\ [][NextRecognize]_vars

\* ------------------------------ the threshold over a grid of face regions
\* An engine constructed with any base threshold recognizes one face once.
BaseThresholds == 0..120
GridRegions == {Region(w, w, b, c, sh, FALSE) :
                   w \in {80, 120}, b \in {30, 50, 70, 128, 190, 210, 230},
                   c \in {20, 28, 35, 50}, sh \in {40, 70, 90, 150, 250}}

InitThreshold ==
    /\ known_face_encodings = <<>>
    /\ known_face_names = <<>>
    /\ person_encodings = <<>>
    /\ known_faces_metadata = EmptyDict
    /\ confidence_threshold \in BaseThresholds
    /\ recognition_history = <<>>
    /\ photos = {}
    /\ face_data_pkl = EmptyPkl
    /\ result = Result("init", "", TRUE, "")
    /\ accepted = [n \in Names |-> <<>>]
    /\ removed = {}
    /\ ops = 0
    /\ faults = 0
    /\ handlers = NoHandlers
    /\ device_states = DEFAULT_DEVICE_STATES

GridRecognize ==
    /\ ops = 0
    /\ UNCHANGED <<handlers, device_states>>
    /\ \E r \in GridRegions :
           recognize_face([valid |-> TRUE, faces |-> <<[region |-> r, enc |-> 0]>>])

NextThreshold == GridRecognize

SpecThreshold == InitThreshold /\ [][NextThreshold]_vars

\* ------------------------------ repeated recognitions, growing history
\* An engine holding one identity recognizes image after image.
TemporalCalls == {<<<<"Alice", 0>>>>, <<<<"Alice", 0>>, <<"Alice", 41>>>>}
TemporalStores == {seed_store(c, Len(c)) : c \in TemporalCalls}
TemporalImages ==
    {GoodImage(0), GoodImage(41), GoodImage(150),
     [valid |-> TRUE, faces |-> <<[region |-> RegionFair, enc |-> 41]>>],
     [valid |-> TRUE, faces |-> <<[region |-> RegionGood, enc |-> 0],
                                  [region |-> RegionGood, enc |-> 150]>>],
     [valid |-> TRUE, faces |-> <<[region |-> RegionBad, enc |-> 0],
                                  [region |-> RegionGood, enc |-> 0]>>]}

InitTemporal ==
    /\ \E st \in TemporalStores :
          /\ known_face_encodings = st.kfe
          /\ known_face_names = st.kfn
          /\ person_encodings = st.pe
          /\ known_faces_metadata = st.meta
          /\ photos = st.photos
          /\ face_data_pkl = save_face_data(EmptyPkl, st.kfe, st.kfn, st.pe, st.meta, "ok")
          /\ accepted = [n \in Names |-> IF n \in Keys(st.pe) THEN Get(st.pe, n) ELSE <<>>]
    /\ confidence_threshold = default_confidence_threshold
    /\ recognition_history = <<>>
    /\ result = Result("init", "", TRUE, "")
    /\ removed = {}
    /\ ops = 0
    /\ faults = 0
    /\ handlers = NoHandlers
    /\ device_states = DEFAULT_DEVICE_STATES

TemporalRecognize ==
    /\ ops < MaxTemporalOps
    /\ UNCHANGED <<handlers, device_states>>
    /\ \E image \in TemporalImages : recognize_face(image)

NextTemporal == TemporalRecognize

SpecTemporal == InitTemporal /\ [][NextTemporal]_vars

\* ------------------------------------------- enrollments and restarts
\* what load_known_faces puts in memory: the pickle's content, or nothing when
\* the file is absent (no legacy files either) or pickle.load raises
load_known_faces(pkl) ==
    IF pkl.exists /\ ~pkl.corrupt
    THEN [kfe |-> pkl.encodings, kfn |-> pkl.names, pe |-> pkl.person_encodings,
          meta |-> pkl.metadata]
    ELSE [kfe |-> <<>>, kfn |-> <<>>, pe |-> <<>>, meta |-> EmptyDict]

\* the process ends and the engine is constructed again over known_faces
Restart ==
    /\ ops < MaxPersistOps
    /\ \E loaded \in {load_known_faces(face_data_pkl)} :
          /\ known_face_encodings' = loaded.kfe
          /\ known_face_names' = loaded.kfn
          /\ person_encodings' = loaded.pe
          /\ known_faces_metadata' = loaded.meta
          /\ accepted' = [n \in Names |-> IF n \in Keys(loaded.pe)
                                          THEN Get(loaded.pe, n) ELSE <<>>]
    /\ confidence_threshold' = default_confidence_threshold
    /\ recognition_history' = <<>>
    /\ result' = Result("init", "", TRUE, "")
    /\ removed' = {}
    /\ ops' = ops + 1
    /\ UNCHANGED <<photos, face_data_pkl, faults, handlers, device_states>>

PersistAdd ==
    /\ ops < MaxPersistOps
    /\ UNCHANGED <<handlers, device_states>>
    /\ \E name \in Names, e \in EnrollEmbeddings :
           add_known_person(name, GoodImage(e), RouteMetadata)
PersistRemove ==
    /\ ops < MaxPersistOps
    /\ UNCHANGED <<handlers, device_states>>
    /\ \E name \in Names : remove_known_person(name)

NextPersist ==
    \/ PersistAdd
    \/ PersistRemove
    \/ Restart

SpecPersist == Init /\ [][NextPersist]_vars

\* --------------------------------------- concurrent requests to the routes
\* Every route is a coroutine on the one event loop of uvicorn.run(app): a
\* handler gives up control only at an await. The add route awaits
\* photo.read() and then calls the engine without a further await; the
\* remove route calls the engine at once.
Request(route, name, enc) == [route |-> route, name |-> name, enc |-> enc, pc |-> "received"]
Requests == {Request("add", "Alice", 0), Request("add", "Alice", 41),
             Request("add", "Bob", 0), Request("remove", "Alice", 0)}
RequestBatches == [1..MaxRequests -> Requests]

ConcurrentCalls == {<<>>, <<<<"Alice", 0>>>>,
                    <<<<"Alice", 0>>, <<"Alice", 0>>, <<"Alice", 0>>, <<"Alice", 41>>>>}
ConcurrentStores == {seed_store(c, Len(c)) : c \in ConcurrentCalls}

\* no photo or pickle failure is injected in these runs
InitConcurrent ==
    /\ \E st \in ConcurrentStores :
          /\ known_face_encodings = st.kfe
          /\ known_face_names = st.kfn
          /\ person_encodings = st.pe
          /\ known_faces_metadata = st.meta
          /\ photos = st.photos
          /\ face_data_pkl = save_face_data(EmptyPkl, st.kfe, st.kfn, st.pe, st.meta, "ok")
          /\ accepted = [n \in Names |-> IF n \in Keys(st.pe) THEN Get(st.pe, n) ELSE <<>>]
    /\ confidence_threshold = default_confidence_threshold
    /\ recognition_history = <<>>
    /\ result = Result("init", "", TRUE, "")
    /\ removed = {}
    /\ ops = 0
    /\ faults = MaxFaults
    /\ handlers \in RequestBatches
    /\ device_states = DEFAULT_DEVICE_STATES

\* photo_data = await photo.read()
AwaitPhotoRead ==
    \E i \in 1..Len(handlers) :
        /\ handlers[i].route = "add"
        /\ handlers[i].pc = "received"
        /\ handlers' = [handlers EXCEPT ![i].pc = "read"]
        /\ UNCHANGED device_states
        /\ UNCHANGED <<known_face_encodings, known_face_names, person_encodings,
                       known_faces_metadata, confidence_threshold, recognition_history,
                       photos, face_data_pkl, result, accepted, removed, ops, faults>>

\* result = face_engine.add_known_person(name, photo_data, metadata); return
HandleAdd ==
    \E i \in 1..Len(handlers) :
        /\ handlers[i].route = "add"
        /\ handlers[i].pc = "read"
        /\ add_known_person(handlers[i].name, GoodImage(handlers[i].enc), RouteMetadata)
        /\ handlers' = [handlers EXCEPT ![i].pc = "done"]
        /\ UNCHANGED device_states

\* result = face_engine.remove_known_person(person_name); return
HandleRemove ==
    \E i \in 1..Len(handlers) :
        /\ handlers[i].route = "remove"
        /\ handlers[i].pc = "received"
        /\ remove_known_person(handlers[i].name)
        /\ handlers' = [handlers EXCEPT ![i].pc = "done"]
        /\ UNCHANGED device_states

NextConcurrent ==
    \/ AwaitPhotoRead
    \/ HandleAdd
    \/ HandleRemove

SpecConcurrent == InitConcurrent /\ [][NextConcurrent]_vars

\* ------------------------------------- a recognition request in flight
\* The recognize route awaits image.read() and calls recognize_face, which
\* calls the detector (face_recognition.face_locations) and goes on when the
\* detector returns. Nothing in the route or in the engine bounds the wait.
RecognizeRequest(image) == [route |-> "recognize", image |-> image, pc |-> "received"]
DetectorImages == TemporalImages \cup {[valid |-> TRUE, faces |-> <<>>]}

InitDetector ==
    /\ \E st \in ConcurrentStores :
          /\ known_face_encodings = st.kfe
          /\ known_face_names = st.kfn
          /\ person_encodings = st.pe
          /\ known_faces_metadata = st.meta
          /\ photos = st.photos
          /\ face_data_pkl = save_face_data(EmptyPkl, st.kfe, st.kfn, st.pe, st.meta, "ok")
          /\ accepted = [n \in Names |-> IF n \in Keys(st.pe) THEN Get(st.pe, n) ELSE <<>>]
    /\ confidence_threshold \in SeedThresholds
    /\ recognition_history = <<>>
    /\ result = Result("init", "", TRUE, "")
    /\ removed = {}
    /\ ops = 0
    /\ faults = 0
    /\ \E image \in DetectorImages : handlers = <<RecognizeRequest(image)>>
    /\ device_states = DEFAULT_DEVICE_STATES

Untouched ==
    UNCHANGED <<known_face_encodings, known_face_names, person_encodings,
                known_faces_metadata, confidence_threshold, recognition_history,
                photos, face_data_pkl, result, accepted, removed, ops, faults>>

\* image_data = await image.read()
AwaitImageRead ==
    /\ handlers[1].pc = "received"
    /\ handlers' = [handlers EXCEPT ![1].pc = "read"]
    /\ UNCHANGED device_states
    /\ Untouched

\* recognize_face decodes the image and calls the detector
CallDetector ==
    /\ handlers[1].pc = "read"
    /\ handlers' = [handlers EXCEPT ![1].pc = "detecting"]
    /\ UNCHANGED device_states
    /\ Untouched

\* the detector returns; recognize_face runs to its end and the route answers
DetectorAnswers ==
    /\ handlers[1].pc = "detecting"
    /\ recognize_face(handlers[1].image)
    /\ handlers' = [handlers EXCEPT ![1].pc = "done"]
    /\ UNCHANGED device_states

NextDetector ==
    \/ AwaitImageRead
    \/ CallDetector
    \/ DetectorAnswers

\* the event loop runs the handler; nothing obliges the detector to answer
SpecDetector ==
    /\ InitDetector
    /\ [][NextDetector]_vars
    /\ WF_vars(AwaitImageRead)
    /\ WF_vars(CallDetector)

\* ------------------------------------------- add route and doorbell flows
\* access_level is a free-form string of the add-person form
AccessLevels == {"standard", "admin", "guest", "owner"}
\* the levels the doorbell filter lets through
AuthorizedLevels == {"standard", "admin", "guest"}

\* POST /face-recognition/add-person
add_person(name, photo, access_level, notes) ==
    add_known_person(name, photo,
                     [given |-> TRUE, access_level |-> access_level, notes |-> notes])

\* variant: the filter keeps every named outcome, whatever its access level
authorized_persons_any_level(recognized_persons) ==
    SelectSeq(recognized_persons, LAMBDA p : p.name # Unknown)

authorized_persons(recognized_persons) ==
    SelectSeq(recognized_persons,
              LAMBDA p : p.name # Unknown /\ p.access_level \in AuthorizedLevels)

\* the door is already unlocked, or update_device_state unlocks it
control_door_for_person(states) ==
    IF ~states.door_front.locked THEN states
    ELSE [states EXCEPT !.door_front.locked = FALSE]

handle_doorbell_recognition(states, recognized_persons) ==
    IF authorized_persons(recognized_persons) # <<>>
    THEN control_door_for_person(states)
    ELSE states

\* POST /doorbell/ring
doorbell_ring(image, auto_open) ==
    /\ recognize_face(image)
    /\ device_states' =
           IF result'.success /\ auto_open
              /\ authorized_persons(result'.recognized_persons) # <<>>
           THEN control_door_for_person(device_states)
           ELSE device_states

\* POST /face-recognition/recognize
recognize_faces(image, doorbell_mode) ==
    /\ recognize_face(image)
    /\ device_states' =
           IF result'.success /\ doorbell_mode /\ result'.recognized_persons # <<>>
           THEN handle_doorbell_recognition(device_states, result'.recognized_persons)
           ELSE device_states

\* POST /doorbell/camera/capture-and-recognize, once a frame has been captured
capture_and_recognize(frame) ==
    /\ recognize_face(frame)
    /\ device_states' =
           IF result'.success /\ result'.recognized_persons # <<>>
           THEN handle_doorbell_recognition(device_states, result'.recognized_persons)
           ELSE device_states

DoorbellPhotos == {GoodImage(0), GoodImage(150)}
DoorbellImages ==
    {InvalidImage, [valid |-> TRUE, faces |-> <<>>],
     GoodImage(0), GoodImage(86), GoodImage(150),
     [valid |-> TRUE, faces |-> <<[region |-> RegionGood, enc |-> 86],
                                  [region |-> RegionGood, enc |-> 150]>>]}

InitDoorbell ==
    /\ known_face_encodings = <<>>
    /\ known_face_names = <<>>
    /\ person_encodings = <<>>
    /\ known_faces_metadata = EmptyDict
    /\ confidence_threshold = default_confidence_threshold
    /\ recognition_history = <<>>
    /\ photos = {}
    /\ face_data_pkl = EmptyPkl
    /\ result = Result("init", "", TRUE, "")
    /\ accepted = [n \in Names |-> <<>>]
    /\ removed = {}
    /\ ops = 0
    /\ faults = MaxFaults
    /\ handlers = NoHandlers
    /\ device_states = DEFAULT_DEVICE_STATES

AddPerson ==
    /\ ops < MaxDoorbellOps
    /\ UNCHANGED <<handlers, device_states>>
    /\ \E name \in Names, photo \in DoorbellPhotos, access_level \in AccessLevels :
           add_person(name, photo, access_level, "")
DoorbellRing ==
    /\ ops < MaxDoorbellOps
    /\ UNCHANGED handlers
    /\ \E image \in DoorbellImages, auto_open \in BOOLEAN : doorbell_ring(image, auto_open)
RecognizeFaces ==
    /\ ops < MaxDoorbellOps
    /\ UNCHANGED handlers
    /\ \E image \in DoorbellImages, doorbell_mode \in BOOLEAN :
           recognize_faces(image, doorbell_mode)
CaptureAndRecognize ==
    /\ ops < MaxDoorbellOps
    /\ UNCHANGED handlers
    /\ \E frame \in DoorbellImages : capture_and_recognize(frame)

NextDoorbell ==
    \/ AddPerson
    \/ DoorbellRing
    \/ RecognizeFaces
    \/ CaptureAndRecognize

SpecDoorbell == InitDoorbell /\ [][NextDoorbell]_vars

\* ------------------------------------------- the two pure functions alone
\* face boxes and grey-level statistics on both sides of every cut-off
QualityRegions ==
    {Region(w, h, b, c, sh, e) :
        w \in {50, 80, 120}, h \in {50, 80, 120, 250},
        b \in {30, 60, 128, 200, 230}, c \in {20, 30, 50}, sh \in {40, 70, 150},
        e \in BOOLEAN}

ValidateFaceQuality ==
    /\ ops < MaxFunctionCalls
    /\ ops' = ops + 1
    /\ \E r \in QualityRegions :
           result' = [op |-> "validate_face_quality", region |-> r,
                      report |-> validate_face_quality(r)]
    /\ UNCHANGED <<known_face_encodings, known_face_names, person_encodings,
                   known_faces_metadata, confidence_threshold, recognition_history,
                   photos, face_data_pkl, accepted, removed, faults, handlers,
                   device_states>>

DistanceToSimilarity ==
    /\ ops < MaxFunctionCalls
    /\ ops' = ops + 1
    /\ \E d \in 0..MaxDistance :
           result' = [op |-> "distance_to_similarity", distance |-> d,
                      similarity |-> distance_to_similarity(d)]
    /\ UNCHANGED <<known_face_encodings, known_face_names, person_encodings,
                   known_faces_metadata, confidence_threshold, recognition_history,
                   photos, face_data_pkl, accepted, removed, faults, handlers,
                   device_states>>

NextFunctions ==
    \/ ValidateFaceQuality
    \/ DistanceToSimilarity

SpecFunctions == Init /\ [][NextFunctions]_vars

\* ------------------- the single-encoding engine, face_recognition_engine.py
\* its state is known_face_encodings, known_face_names, known_faces_metadata
\* and the photos; face_data_pkl holds its three files face_encodings.npy,
\* face_names.json and metadata/face_metadata.json
legacy_confidence_threshold == 40

NoLegacyFiles ==
    [encodings_exists |-> FALSE, encodings |-> <<>>,
     names_exists |-> FALSE, names |-> <<>>,
     metadata_exists |-> FALSE, metadata |-> EmptyDict]

\* face_encodings.npy is written only when the list is not empty
legacy_save_face_data(files, kfe, kfn, meta) ==
    [encodings_exists |-> files.encodings_exists \/ kfe # <<>>,
     encodings |-> IF kfe # <<>> THEN kfe ELSE files.encodings,
     names_exists |-> TRUE, names |-> kfn,
     metadata_exists |-> TRUE, metadata |-> meta]

legacy_load_known_faces(files) ==
    IF files.encodings_exists /\ files.names_exists
    THEN [kfe |-> files.encodings, kfn |-> files.names,
          meta |-> IF files.metadata_exists THEN files.metadata ELSE EmptyDict]
    ELSE [kfe |-> <<>>, kfn |-> <<>>, meta |-> EmptyDict]

legacy_add_known_person(name, image, metadata) ==
    /\ ops' = ops + 1
    /\ UNCHANGED <<person_encodings, confidence_threshold, recognition_history,
                   removed, faults>>
    /\ IF ~image.valid \/ Len(image.faces) = 0
       THEN /\ result' = Result("add", name, FALSE,
                                IF image.valid THEN "No face detected in the provided image"
                                ELSE "Failed to process image")
            /\ UNCHANGED <<known_face_encodings, known_face_names, known_faces_metadata,
                           photos, face_data_pkl, accepted>>
       ELSE \E face_encoding \in {image.faces[1].enc} :
              /\ IF \E i \in 1..Len(known_face_names) : known_face_names[i] = name
                 THEN /\ known_face_encodings' =
                             [known_face_encodings EXCEPT
                                 ![ListIndex(known_face_names, name)] = face_encoding]
                      /\ UNCHANGED known_face_names
                 ELSE /\ known_face_encodings' = Append(known_face_encodings, face_encoding)
                      /\ known_face_names' = Append(known_face_names, name)
              /\ photos' = photos \cup {<<name, 1>>}
              /\ known_faces_metadata' =
                     MetaPut(known_faces_metadata, name,
                         [photo_paths |-> <<<<name, 1>>>>,
                          access_level |-> IF metadata.given THEN metadata.access_level
                                           ELSE "standard",
                          notes |-> IF metadata.given THEN metadata.notes ELSE ""])
              /\ face_data_pkl' =
                     legacy_save_face_data(face_data_pkl, known_face_encodings',
                                           known_face_names', known_faces_metadata')
              /\ accepted' = [accepted EXCEPT ![name] = <<face_encoding>>]
              /\ result' = Result("add", name, TRUE, "")

legacy_remove_known_person(name) ==
    /\ ops' = ops + 1
    /\ UNCHANGED <<person_encodings, confidence_threshold, recognition_history,
                   removed, faults>>
    /\ IF \A i \in 1..Len(known_face_names) : known_face_names[i] # name
       THEN /\ result' = Result("remove", name, FALSE, "not found in database")
            /\ UNCHANGED <<known_face_encodings, known_face_names, known_faces_metadata,
                           photos, face_data_pkl, accepted>>
       ELSE \E index \in {ListIndex(known_face_names, name)} :
              /\ known_face_names' = SubSeq(known_face_names, 1, index - 1)
                     \o SubSeq(known_face_names, index + 1, Len(known_face_names))
              /\ known_face_encodings' = SubSeq(known_face_encodings, 1, index - 1)
                     \o SubSeq(known_face_encodings, index + 1, Len(known_face_encodings))
              /\ known_faces_metadata' = MetaDel(known_faces_metadata, name)
              /\ photos' = photos \ {<<name, 1>>}
              /\ face_data_pkl' =
                     legacy_save_face_data(face_data_pkl, known_face_encodings',
                                           known_face_names', known_faces_metadata')
              /\ accepted' = [accepted EXCEPT ![name] = <<>>]
              /\ result' = Result("remove", name, TRUE, "")

InitLegacy ==
    /\ known_face_encodings = <<>>
    /\ known_face_names = <<>>
    /\ person_encodings = <<>>
    /\ known_faces_metadata = EmptyDict
    /\ confidence_threshold = legacy_confidence_threshold
    /\ recognition_history = <<>>
    /\ photos = {}
    /\ face_data_pkl = NoLegacyFiles
    /\ result = Result("init", "", TRUE, "")
    /\ accepted = [n \in Names |-> <<>>]
    /\ removed = {}
    /\ ops = 0
    /\ faults = 0
    /\ handlers = NoHandlers
    /\ device_states = DEFAULT_DEVICE_STATES

LegacyAdd ==
    /\ ops < MaxLegacyOps
    /\ UNCHANGED <<handlers, device_states>>
    /\ \E name \in Names, image \in DoorbellImages, metadata \in Metadatas :
           legacy_add_known_person(name, image, metadata)
LegacyRemove ==
    /\ ops < MaxLegacyOps
    /\ UNCHANGED <<handlers, device_states>>
    /\ \E name \in Names : legacy_remove_known_person(name)
\* the process ends and the engine is constructed again over known_faces
LegacyRestart ==
    /\ ops < MaxLegacyOps
    /\ \E loaded \in {legacy_load_known_faces(face_data_pkl)} :
          /\ known_face_encodings' = loaded.kfe
          /\ known_face_names' = loaded.kfn
          /\ known_faces_metadata' = loaded.meta
    /\ result' = Result("init", "", TRUE, "")
    /\ ops' = ops + 1
    /\ UNCHANGED <<person_encodings, confidence_threshold, recognition_history, photos,
                   face_data_pkl, accepted, removed, faults, handlers, device_states>>

NextLegacy ==
    \/ LegacyAdd
    \/ LegacyRemove
    \/ LegacyRestart

SpecLegacy == InitLegacy /\ [][NextLegacy]_vars

\* ================================================================ claims
Count(seq, x) == Cardinality({i \in 1..Len(seq) : seq[i] = x})
Outcomes == {result.recognized_persons[i] : i \in 1..Len(result.recognized_persons)}

\* C1: a call of add_known_person or remove_known_person that returns
\* success = false leaves known_face_encodings, known_face_names,
\* person_encodings and known_faces_metadata as they were before the call.
C1_FailClosed ==
    [][(result'.op \in {"add", "remove"} /\ ~result'.success) => store' = store]_vars

\* C2: with no failed call in the run, an identity that has had n >= K = 4
\* accepted enrollments holds exactly the K most recently accepted embeddings.
C2_FifoReplacement ==
    \A n \in Keys(person_encodings) :
        (faults = 0 /\ Len(accepted[n]) >= max_faces_per_person) =>
            \A e \in Embeddings :
                Count(Get(person_encodings, n), e)
                    = Count(LastN(accepted[n], max_faces_per_person), e)

\* C3: every identity present in the store holds at least 1 and at most K = 4
\* embeddings, in person_encodings and in the parallel name list.
C3_EncodingCountBounds ==
    \A i \in 1..Len(person_encodings) :
        /\ 1 <= Len(person_encodings[i].encs)
        /\ Len(person_encodings[i].encs) <= max_faces_per_person
        /\ Count(known_face_names, person_encodings[i].name) <= max_faces_per_person

\* C3 witness: an accepted enrollment for an identity that already held 4.
C3_Witness ==
    /\ result.op = "add" /\ result.success
    /\ Len(accepted[result.name]) > max_faces_per_person
    /\ Len(Get(person_encodings, result.name)) = max_faces_per_person

ValidationErrors == {"No face detected", "Face quality too low for training",
                     "Could not extract face features", "New photo looks very different"}

\* C4: an enrollment rejected by validation (no face, quality below 0.6, no
\* encoding, outlier) returns success = false and leaves the identities,
\* their embeddings and their metadata unchanged.
C4_RejectedEnrollmentNoMutation ==
    [][(result'.op = "add" /\ result'.error \in ValidationErrors) =>
          /\ ~result'.success
          /\ store' = store]_vars

\* C4 witness: an outlier photo of a known identity has been rejected.
C4_Witness ==
    /\ result.op = "add" /\ ~result.success
    /\ result.error = "New photo looks very different"
    /\ result.name \in Keys(person_encodings)

\* C5: after a successful remove_known_person(name) the name is in neither
\* person_encodings, known_face_names nor the metadata, the two lists are
\* still parallel, list_known_persons does not show it and get_person_photo
\* returns None; remove of a name that is not in the store fails and changes
\* nothing.
C5_RemoveLeavesNoTrace ==
    [][(result'.op = "remove") =>
          IF result'.name \in Keys(person_encodings)
          THEN /\ result'.success
               /\ result'.name \notin Keys(person_encodings')
               /\ Count(known_face_names', result'.name) = 0
               /\ Len(known_face_encodings') = Len(known_face_names')
               /\ result'.name \notin DOMAIN known_faces_metadata'
               /\ Count(list_known_persons(person_encodings'), result'.name) = 0
               /\ ~get_person_photo(known_faces_metadata', photos', result'.name)
          ELSE /\ ~result'.success
               /\ store' = store
               /\ photos' = photos]_vars

\* C5 witness: an identity has been removed while another one, with two or
\* more embeddings, stays.
C5_Witness ==
    /\ result.op = "remove" /\ result.success
    /\ Len(known_face_names) >= 2

\* C6: between a successful remove_known_person(name) and the next successful
\* add_known_person(name) no recognition outcome carries that name.
C6_RemovedNeverRecognized ==
    result.op = "recognize" => \A o \in Outcomes : o.name \notin removed

ScoresFor(o) == all_scores(person_encodings, o.probe)
AllEqualTo(encs, e) == \A k \in 1..Len(encs) : encs[k] = e
AllFarFrom(encs, e) == \A k \in 1..Len(encs) : Abs(encs[k] - e) > 60

\* C7 as claimed: when the probe of a recognition is, verbatim, a stored
\* embedding of an identity (of any of its 1..K references), it scores at
\* least 0.90 against that identity and the outcome names that identity.
C7_OwnEmbeddingMatches_Original ==
    result.op = "recognize" =>
        \A o \in Outcomes : \A i \in 1..Len(person_encodings) :
            Count(person_encodings[i].encs, o.probe) > 0 =>
                /\ ScoresFor(o)[i] >= 900000000
                /\ o.name = person_encodings[i].name

StrictlyBest(sims, i) == \A j \in 1..Len(sims) : j # i => sims[j] < sims[i]

\* C7 amended: when the probe is the embedding that all the references of an
\* identity are equal to (in particular its single reference), it scores at
\* least 0.90 against that identity, and the outcome names that identity
\* whenever its score is strictly the highest in the store.
C7_OwnEmbeddingMatches ==
    result.op = "recognize" =>
        \A o \in Outcomes : \A i \in 1..Len(person_encodings) :
            AllEqualTo(person_encodings[i].encs, o.probe) =>
                /\ ScoresFor(o)[i] >= 900000000
                /\ StrictlyBest(ScoresFor(o), i) => o.name = person_encodings[i].name

\* C7 witness: a probe equal to the two or more identical references of an
\* identity has been recognized as that identity, a second identity present.
C7_Witness ==
    /\ result.op = "recognize"
    /\ Len(person_encodings) >= 2
    /\ \E o \in Outcomes : \E i \in 1..Len(person_encodings) :
          /\ Len(person_encodings[i].encs) >= 2
          /\ AllEqualTo(person_encodings[i].encs, o.probe)
          /\ o.name = person_encodings[i].name

\* C8: an identity all of whose reference embeddings are at distance > 0.6
\* from the probe is never the name of the outcome for that probe.
C8_FarIdentityNeverNamed ==
    result.op = "recognize" =>
        \A o \in Outcomes : \A i \in 1..Len(person_encodings) :
            AllFarFrom(person_encodings[i].encs, o.probe) =>
                o.name # person_encodings[i].name

\* C8 witness: lowest accepted base threshold, an identity with K far
\* references that fills the recent history, and an outcome for the probe.
C8_Witness ==
    /\ result.op = "recognize"
    /\ confidence_threshold = 10
    /\ \E o \in Outcomes : \E i \in 1..Len(person_encodings) :
          /\ Len(person_encodings[i].encs) = max_faces_per_person
          /\ AllFarFrom(person_encodings[i].encs, o.probe)
          /\ Count(recognition_history, person_encodings[i].name) >= 3
          /\ ScoresFor(o)[i] > 0

\* C9: the threshold reported in every recognition outcome lies within
\* [0.45, 0.75], whatever the base threshold and the quality report.
C9_DynamicThresholdBounds ==
    result.op = "recognize" =>
        \A o \in Outcomes :
            min_threshold <= o.dynamic_threshold /\ o.dynamic_threshold <= max_threshold

\* C9 witness: a base threshold below the floor, the outcome reports the floor.
C9_Witness ==
    /\ result.op = "recognize"
    /\ confidence_threshold < 40
    /\ \E o \in Outcomes : o.dynamic_threshold = min_threshold

\* highest and second-highest similarity over the identities
Highest(sims) == SeqMax(sims)
SecondHighest(sims) ==
    LET top == CHOOSE i \in 1..Len(sims) : \A j \in 1..Len(sims) : sims[j] <= sims[i]
    IN  CHOOSE x \in {sims[j] : j \in (1..Len(sims)) \ {top}} :
            \A j \in (1..Len(sims)) \ {top} : sims[j] <= x

\* C10: with at least two identities, when the gap between the highest and
\* the second-highest similarity is below the required margin (0.12 for
\* quality > 0.7, else 0.18) and the highest is below 0.85, the outcome is
\* "Unknown".
C10_AmbiguityGivesUnknown ==
    (result.op = "recognize" /\ Len(person_encodings) >= 2) =>
        \A o \in Outcomes :
            (/\ Highest(ScoresFor(o)) - SecondHighest(ScoresFor(o))
                    < (IF o.face_quality > 700000 THEN 120000000 ELSE 180000000)
             /\ Highest(ScoresFor(o)) < 850000000)
            => o.name = Unknown

\* C10 witness: best 0.60, second 0.50, quality 0.8, threshold 0.55.
C10_Witness ==
    /\ result.op = "recognize"
    /\ Len(person_encodings) >= 2
    /\ \E o \in Outcomes :
          /\ Highest(ScoresFor(o)) = 600000000
          /\ SecondHighest(ScoresFor(o)) = 500000000
          /\ o.face_quality = 800000
          /\ o.dynamic_threshold = 55
          /\ o.name = Unknown

\* names of the outcomes in emission order
OutcomeNames(persons) == [k \in 1..Len(persons) |-> persons[k].name]
\* the history as the i-th outcome of a call found it
PriorNames(history, persons, i) == history \o SubSeq(OutcomeNames(persons), 1, i - 1)
\* confidence of an outcome before the temporal tracker
WithoutHistory(o) ==
    validate_match(person_encodings, o.probe, o.face_quality, o.dynamic_threshold).similarity

\* C11: for an outcome naming X with X occurring count times among the last
\* five history entries, the confidence is min(1.0, c + min(0.05*count, 0.15))
\* when count >= 2 and c otherwise, c being the confidence without history;
\* so it is never below c and never above 1.0.
C11_TemporalBonus ==
    [][result'.op = "recognize" =>
          \A i \in 1..Len(result'.recognized_persons) :
              LET o == result'.recognized_persons[i]
                  c == WithoutHistory(o)
                  count == Count(LastN(PriorNames(recognition_history,
                                                  result'.recognized_persons, i), 5),
                                 o.name)
              IN  /\ o.confidence =
                         IF o.name # Unknown /\ count >= 2
                         THEN Min2(ScoreOne, c + Min2(5 * count, 15) * 10000000)
                         ELSE c
                  /\ c <= o.confidence
                  /\ o.confidence <= ScoreOne]_vars

\* C11 witness: the third match in a row to the same identity, reported with
\* more confidence than the same probe has without history.
C11_Witness ==
    /\ result.op = "recognize"
    /\ Len(recognition_history) >= 3
    /\ \E o \in Outcomes :
          /\ o.name = "Alice"
          /\ Count(LastN(recognition_history, 3), "Alice") = 3
          /\ WithoutHistory(o) < o.confidence
          /\ o.confidence < ScoreOne

\* C12: the history never holds more than 10 entries, and every
\* recognize_face call leaves it equal to the last 10 of the old history
\* followed by the names of the outcomes the call emitted, in order.
C12_HistoryWindow ==
    [][/\ Len(recognition_history') <= history_window
       /\ result'.op = "recognize" =>
              recognition_history' =
                  LastN(recognition_history \o OutcomeNames(result'.recognized_persons),
                        history_window)]_vars

\* C12 witness: more than 10 names have been emitted, the history holds 10 of
\* them, "Unknown" among them.
C12_Witness ==
    /\ ops > history_window
    /\ Len(recognition_history) = history_window
    /\ Count(recognition_history, Unknown) > 0
    /\ recognition_history[history_window] = "Alice"

\* C13: the similarity of a probe against every identity of the store lies
\* within [0, 1], distances above 1.0 included.
C13_ScorerRange ==
    result.op = "recognize" =>
        \A o \in Outcomes : \A i \in 1..Len(person_encodings) :
            0 <= ScoresFor(o)[i] /\ ScoresFor(o)[i] <= ScoreOne

\* C14: the confidence of every recognition outcome lies within [0, 1].
C14_ConfidenceRange ==
    result.op = "recognize" =>
        \A o \in Outcomes : 0 <= o.confidence /\ o.confidence <= ScoreOne

\* C14 witness: a named outcome whose confidence the temporal bonus lifted to
\* exactly 1.0, while another identity of the store scores below 0.
C14_Witness ==
    /\ result.op = "recognize"
    /\ \E o \in Outcomes :
          /\ o.name # Unknown
          /\ WithoutHistory(o) < ScoreOne
          /\ o.confidence = ScoreOne
          /\ \E i \in 1..Len(person_encodings) : ScoresFor(o)[i] < 0

\* C15: update_confidence_threshold(v) succeeds exactly when 0.1 <= v <= 1.0;
\* then the base threshold becomes v and the result carries the old and the
\* new value; otherwise an error is returned and the base threshold is
\* unchanged. A base threshold within [0.1, 1.0] stays within it.
C15_ThresholdSetter ==
    [][/\ \A v \in Thresholds :
              update_confidence_threshold(v) =>
                  IF 10 <= v /\ v <= 100
                  THEN /\ result'.success
                       /\ confidence_threshold' = v
                       /\ result'.old_threshold = confidence_threshold
                       /\ result'.new_threshold = v
                  ELSE /\ ~result'.success
                       /\ result'.error # ""
                       /\ confidence_threshold' = confidence_threshold
       /\ (10 <= confidence_threshold /\ confidence_threshold <= 100) =>
              (10 <= confidence_threshold' /\ confidence_threshold' <= 100)]_vars

\* C15 witness: 1.0 has been accepted and the next value has been rejected.
C15_Witness ==
    /\ result.op = "threshold"
    /\ ~result.success
    /\ confidence_threshold = 100
    /\ ops = 2

\* the store after one complete call made on its own
seed_remove(st, name) ==
    IF name \notin Keys(st.pe) THEN st
    ELSE [kfe |-> purge(st.kfe, st.kfn, name).kfe,
          kfn |-> purge(st.kfe, st.kfn, name).kfn,
          pe |-> Del(st.pe, name),
          meta |-> MetaDel(st.meta, name),
          photos |-> IF name \in DOMAIN st.meta
                     THEN st.photos \ PathSet(st.meta[name].photo_paths) ELSE st.photos]
CallAlone(st, r) ==
    IF r.route = "add" THEN seed_add(st, r.name, r.enc) ELSE seed_remove(st, r.name)
StoreNow ==
    [kfe |-> known_face_encodings, kfn |-> known_face_names, pe |-> person_encodings,
     meta |-> known_faces_metadata, photos |-> photos]

MemoryNow ==
    [kfe |-> known_face_encodings, kfn |-> known_face_names, pe |-> person_encodings,
     meta |-> known_faces_metadata]

\* C17: an enrollment or removal that changed the store in memory and did
\* not get it into face_data.pkl does not return a plain success: the result
\* reports the failure; the change stays in memory.
C17_PersistenceFailureReported ==
    [][(/\ result'.op \in {"add", "remove"}
        /\ MemoryNow' # MemoryNow
        /\ load_known_faces(face_data_pkl') # MemoryNow')
       => (~result'.success \/ result'.error # "")]_vars

\* C19: whatever point the write of face_data.pkl reached, a later
\* load_known_faces yields the whole store of before the mutation or the
\* whole store of after it.
C19_AtomicPersistence ==
    [][(result'.op \in {"add", "remove"} /\ MemoryNow' # MemoryNow)
       => load_known_faces(face_data_pkl') \in {MemoryNow, MemoryNow'}]_vars

\* C18: a recognize_face call that waits for the detector eventually returns
\* to its caller, whether or not the detector answers.
C18_RecognizeReturns ==
    (handlers # <<>> /\ handlers[1].pc = "detecting")
        ~> (handlers # <<>> /\ handlers[1].pc = "done")

\* C20: a successful enrollment for a name that already has metadata leaves
\* that metadata with the access_level and the notes supplied in the call,
\* and with last_updated set.
C20_MetadataUpdatedOnReEnrollment ==
    [][\A name \in Names, image \in Images, metadata \in Metadatas :
          (/\ add_known_person(name, image, metadata)
           /\ result'.success
           /\ metadata.given
           /\ name \in DOMAIN known_faces_metadata)
          => /\ known_faces_metadata'[name].access_level = metadata.access_level
             /\ known_faces_metadata'[name].notes = metadata.notes
             /\ known_faces_metadata'[name].last_updated]_vars

\* C21: after any sequence of enrollments through the add-person route, the
\* access_level stored for every identity is one of standard, admin, guest.
C21_AccessLevelDomain ==
    \A name \in DOMAIN known_faces_metadata :
        known_faces_metadata[name].access_level \in AuthorizedLevels

\* the successfully enrolled embeddings of name, the most recent one first
NewestFirst(name) ==
    [i \in 1..Len(accepted[name]) |-> accepted[name][Len(accepted[name]) + 1 - i]]

\* C22: for an identity with more than one reference embedding, the score of
\* a probe is the ensemble score with the references weighted newest first:
\* 0.4 for the most recently enrolled one, then 0.3, 0.2 and 0.1.
C22_NewestFirstWeights ==
    \A name \in Keys(person_encodings) :
        (/\ Len(Get(person_encodings, name)) > 1
         /\ Len(accepted[name]) = Len(Get(person_encodings, name))
         /\ \A e \in Embeddings :
                Count(accepted[name], e) = Count(Get(person_encodings, name), e))
        => \A probe \in Embeddings :
               calculate_similarity_score(person_encodings, probe, name)
                   = score_of_distances(face_distance(NewestFirst(name), probe))

\* C23: every outcome that names an identity names one of the store whose
\* similarity to the probe is the maximum over the store, with a confidence
\* at or above the dynamic threshold reported with it (the quality
\* adjustment and its re-test included); when the best similarity is below
\* that threshold the outcome is "Unknown".
C23_NamedOutcomeSound ==
    result.op = "recognize" =>
        \A o \in Outcomes :
            /\ o.name # Unknown =>
                  /\ o.name \in Keys(person_encodings)
                  /\ ScoresFor(o)[KeyIndex(person_encodings, o.name)]
                         = Highest(ScoresFor(o))
                  /\ o.confidence >= ThresholdScore(o.dynamic_threshold)
                  /\ WithoutHistory(o) >= ThresholdScore(o.dynamic_threshold)
            /\ (person_encodings # <<>>
                /\ Highest(ScoresFor(o)) < ThresholdScore(o.dynamic_threshold))
               => o.name = Unknown

\* C23 witness: with two identities in the store, an outcome is named after
\* the 0.9 penalty for a face of quality below 0.5 and the re-test, the
\* second identity having a positive but lower similarity.
C23_Witness ==
    /\ result.op = "recognize"
    /\ Len(person_encodings) >= 2
    /\ \E o \in Outcomes :
          /\ o.name # Unknown
          /\ o.face_quality < 500000
          /\ WithoutHistory(o) < Highest(ScoresFor(o))
          /\ SecondHighest(ScoresFor(o)) > 0

\* C24 as claimed: every recognize_face call appends to the recognition
\* history, whatever its outcome (match, "Unknown", or no usable face).
C24_EveryCallAppends_Original ==
    [][(\E image \in Images : recognize_face(image))
       => \/ Len(recognition_history') > Len(recognition_history)
          \/ Len(recognition_history) = history_window]_vars

\* C24 amended: a recognize_face call appends to the recognition history the
\* names of the outcomes it emits, in order, "Unknown" included, keeping the
\* last history_window entries; a call that emits no outcome (no face
\* detected, every face below quality 0.3, or a failed call) leaves the
\* history as it was.
C24_HistoryReceivesOutcomes ==
    [][(\E image \in Images : recognize_face(image))
       => recognition_history'
              = LastN(recognition_history \o OutcomeNames(result'.recognized_persons),
                      history_window)]_vars

\* C24 witness: a call on two faces, one of them skipped for its quality,
\* has emitted one "Unknown" outcome, and the history ends with it.
C24_Witness ==
    /\ result.op = "recognize"
    /\ result.faces_detected = 2
    /\ OutcomeNames(result.recognized_persons) = <<Unknown>>
    /\ person_encodings # <<>>
    /\ recognition_history # <<>>
    /\ recognition_history[Len(recognition_history)] = Unknown

\* the tags each check of _validate_face_quality can report
CheckTags ==
    <<{"small_face", "medium_face"}, {"unusual_aspect_ratio"},
      {"too_dark", "too_bright", "suboptimal_lighting"},
      {"low_contrast", "medium_contrast"}, {"blurry", "slight_blur"}, {"edge_face"}>>

RECURSIVE PenaltyProduct(_)
PenaltyProduct(issues) ==
    IF issues = <<>> THEN 1000000
    ELSE (penalty(Head(issues)) * PenaltyProduct(Tail(issues))) \div 10

\* C25: for every face region, _validate_face_quality reports at most one
\* tag per check (size, aspect ratio, lighting, contrast, blur, edge), only
\* tags of those checks, a quality score equal to the product of the penalty
\* factors of exactly the reported tags, within (0, 1], and is_good_quality
\* exactly when the score is above 0.7 and at most 2 tags are reported.
C25_QualityReport ==
    result.op = "validate_face_quality" =>
        /\ \A k \in 1..Len(CheckTags) :
               Cardinality({i \in 1..Len(result.report.issues) :
                               result.report.issues[i] \in CheckTags[k]}) <= 1
        /\ \A i \in 1..Len(result.report.issues) :
               \E k \in 1..Len(CheckTags) : result.report.issues[i] \in CheckTags[k]
        /\ result.report.quality_score = PenaltyProduct(result.report.issues)
        /\ result.report.quality_score > 0
        /\ result.report.quality_score <= 1000000
        /\ result.report.is_good_quality
               <=> (result.report.quality_score > 700000
                    /\ Len(result.report.issues) <= 2)

\* C25 witness: a small, elongated, dark, flat, blurred face at the edge of
\* the image gets one tag from each of the six checks.
C25_Witness ==
    /\ result.op = "validate_face_quality"
    /\ result.report.issues = <<"small_face", "unusual_aspect_ratio", "too_dark",
                                "low_contrast", "blurry", "edge_face">>
    /\ result.report.quality_score = 28800
    /\ ~result.report.is_good_quality

\* C26: _distance_to_similarity is non-increasing in the distance, stays
\* within [0, 1] for every distance >= 0, makes no jump from one band to the
\* next (at 0.25, 0.35, 0.45, 0.60), and maps the bands to [0.90, 1.00],
\* [0.75, 0.90], [0.50, 0.75], [0.20, 0.50] and [0.00, 0.20].
C26_DistanceToSimilarity ==
    result.op = "distance_to_similarity" =>
        /\ result.similarity >= 0 /\ result.similarity <= 10000
        /\ distance_to_similarity(result.distance + 1) <= result.similarity
        /\ result.similarity - distance_to_similarity(result.distance + 1) <= 250
        /\ result.distance <= 25 => result.similarity >= 9000
        /\ (result.distance >= 25 /\ result.distance <= 35)
               => (result.similarity >= 7500 /\ result.similarity <= 9000)
        /\ (result.distance >= 35 /\ result.distance <= 45)
               => (result.similarity >= 5000 /\ result.similarity <= 7500)
        /\ (result.distance >= 45 /\ result.distance <= 60)
               => (result.similarity >= 2000 /\ result.similarity <= 5000)
        /\ result.distance >= 60 => result.similarity <= 2000

\* C26 witness: a distance beyond 1.0, where the last band has reached 0.
C26_Witness ==
    /\ result.op = "distance_to_similarity"
    /\ result.distance > 100
    /\ result.similarity = 0

\* an outcome that names an identity of the store whose stored access level
\* is standard, admin or guest
NamesAuthorized(o) ==
    /\ o.name \in Keys(person_encodings)
    /\ o.access_level \in AuthorizedLevels
    /\ o.name \in DOMAIN known_faces_metadata
           => o.access_level = known_faces_metadata[o.name].access_level

WithHistory(o, m, h) ==
    outcome(m, known_faces_metadata, h, [quality_score |-> o.face_quality],
            o.dynamic_threshold, [enc |-> o.probe])

\* the match for the face of o in the present store, before the temporal bonus
MatchOf(o) ==
    validate_match(person_encodings, o.probe, o.face_quality, o.dynamic_threshold)

\* C28: the recognition history never changes who is recognised: in a state
\* that differs only in recognition_history, the same face gets the same
\* name; only the confidence of a matched name may differ, and an "Unknown"
\* stays "Unknown" with the same confidence.
C28_HistoryNeverChangesName ==
    result.op = "recognize" =>
        \A o \in Outcomes : \E m \in {MatchOf(o)} :
            \A h \in SeedHistories : \E other \in {WithHistory(o, m, h)} :
                /\ other.name = o.name
                /\ other.access_level = o.access_level
                /\ o.name = Unknown => other.confidence = o.confidence

\* C28 witness: with two identities in the store, a face is matched and its
\* confidence under another history differs from the one reported, and a
\* history full of one name is among those compared.
C28_Witness ==
    /\ result.op = "recognize"
    /\ Len(person_encodings) >= 2
    /\ \E o \in Outcomes : \E h \in SeedHistories :
           /\ o.name # Unknown
           /\ Len(h) >= 2
           /\ \A i \in 1..Len(h) : h[i] = o.name
           /\ WithHistory(o, MatchOf(o), h).confidence > o.confidence

\* C30: recognize_face is read-only on the identity store: whatever the
\* input and the outcome (match, "Unknown", no face, failure), the call
\* leaves person_encodings, known_face_encodings, known_face_names,
\* known_faces_metadata and the base threshold unchanged; of the engine's
\* state only recognition_history may change.
C30_RecognizeReadOnly ==
    [][(\E image \in DoorbellImages : recognize_face(image))
       => /\ store' = store
          /\ confidence_threshold' = confidence_threshold
          /\ photos' = photos
          /\ face_data_pkl' = face_data_pkl]_vars

\* C30 witness: in a store of two identities a call on two faces has emitted
\* a match and an "Unknown", and both are in the history.
C30_Witness ==
    /\ result.op = "recognize"
    /\ Len(person_encodings) >= 2
    /\ \E o \in Outcomes : o.name # Unknown
    /\ \E o \in Outcomes : o.name = Unknown
    /\ Count(recognition_history, Unknown) > 0
    /\ \E name \in Names : Count(recognition_history, name) > 0

\* C29: in the single-encoding engine, after any sequence of add_known_person
\* and remove_known_person calls interleaved with restarts,
\* known_face_encodings and known_face_names have the same length, and entry
\* i of the encodings is the embedding last enrolled for the name at entry i.
C29_LegacyListsAligned ==
    /\ Len(known_face_encodings) = Len(known_face_names)
    /\ \A i \in 1..Len(known_face_names) :
           i <= Len(known_face_encodings)
               => accepted[known_face_names[i]] = <<known_face_encodings[i]>>

====
